---- MODULE Spec2Model ----
(***************************************************************************)
(* pykerr/qnm.py: quasinormal-mode lookup for Kerr black holes.            *)
(*                                                                         *)
(* Spins are fixed-point integers in units of 1e-4 (0.9997 is 9997).       *)
(* Tabulated omega samples are fixed-point integers in the same unit.      *)
(* An interpolant is represented by the dataset it was built from, and is  *)
(* evaluated at sample knots, where an interpolating spline returns the    *)
(* tabulated value.  kerr_freq and kerr_tau return exact quotients, kept   *)
(* as <<numerator, denominator>>; the factor 2*pi*MTSUN of kerr_freq's     *)
(* denominator and the factor MTSUN of kerr_tau's numerator are the units. *)
(***************************************************************************)
EXTENDS Integers, Sequences, FiniteSets, TLC

VARIABLES
    _reomega_splines,   \* qnm.py:16  cache of real-part splines
    _imomega_splines,   \* qnm.py:17  cache of imaginary-part splines
    last,               \* the last public call: its arguments and its outcome
    openStreams,        \* resource streams opened by _create_spline, not yet closed
    openHdf,            \* h5py.File objects currently open
    tpc,                \* concurrent callers: position inside _getspline
    targ,               \* concurrent callers: arguments of the lookup
    tspline,            \* concurrent callers: the local variable `spline`
    modeA, modeB,       \* key resolution: two requested modes
    resA, resB,         \* key resolution: what _create_spline did for each
    dataLs,             \* the bundled data: the l indices that have a file data/l{l}.hdf
    dataMaxN            \* the bundled data: the last overtone tabulated in a file

vars == <<_reomega_splines, _imomega_splines, last, openStreams, openHdf,
          tpc, targ, tspline, modeA, modeB, resA, resB, dataLs, dataMaxN>>

----------------------------------------------------------------------------
\* Bounds of the model.

\* largest overtone number requested (those above MaxDataN are not tabulated)
MaxN == 1
\* resource streams that may linger unclosed at once
MaxOpen == 1
\* concurrent callers of _getspline
NThreads == 2
\* an overtone number of the key-resolution check beyond the tabulated ones
MaxKeyN == 11

\* Program constants.

\* qnm.py:9  MAX_SPIN = 0.9997, in units of 1e-4
MAX_SPIN == 9997

----------------------------------------------------------------------------
\* Python builtins.

abs(x) == IF x < 0 THEN -x ELSE x

DigitChar(d) == <<"0", "1", "2", "3", "4", "5", "6", "7", "8", "9">>[d + 1]

\* '{}'.format(k) for an int k: decimal digits, with a leading '-' if negative
RECURSIVE FormatNat(_)
FormatNat(k) == IF k < 10 THEN <<DigitChar(k)>>
                ELSE FormatNat(k \div 10) \o <<DigitChar(k % 10)>>

format(k) == IF k < 0 THEN <<"-">> \o FormatNat(-k) ELSE FormatNat(k)

----------------------------------------------------------------------------
\* The bundled data: data/l{l}.hdf, with one subgroup per tabulated mode.

\* the data of the lookups below: data/l2.hdf, holding the fundamental modes
\* last overtone tabulated in a data file
MaxDataN == 0
\* l indices that have a data file
DataLs == {2}

\* the data of the key-resolution check: data/l2.hdf and data/l12.hdf, holding
\* the overtones 0..KeyDataN of every (l, |m|)
KeyDataN == 10
KeyDataLs == {2, 12}

\* the mode (l, a, n), a >= 0, was tabulated
Tabulated(l, a, n) == l \in dataLs /\ a \in 0..l /\ n \in 0..dataMaxN

\* the resource data/l{l}.hdf exists
HasResource(l) == l \in dataLs

\* the subgroups of data/l{l}.hdf: each tabulated mode is stored under the
\* concatenation of the decimal digits of l, a and n
Groups(l) == {format(l) \o format(a) \o format(n) : a \in 0..l, n \in 0..dataMaxN}

\* the tabulated mode whose samples the subgroup `group` of data/l{l}.hdf holds
\* (a file holds one dataset per name: of two modes with one name, one of them)
Owner(l, group) ==
    CHOOSE k \in {<<l, a, n>> : a \in 0..l, n \in 0..dataMaxN} :
        format(k[1]) \o format(k[2]) \o format(k[3]) = group

\* the tabulated omega of mode k at the knot `spin`, real part
OmegaRe(k, spin) == 3000 + 350 * k[2] - 400 * k[3] + (spin \div 10)

\* the tabulated omega of mode k at the knot `spin`, imaginary part (decaying)
OmegaIm(k, spin) == -(900 + 30 * k[2] + 1800 * k[3]) + (spin \div 20)

----------------------------------------------------------------------------
\* Inputs.

\* modes requested: the tabulated modes (2, m, 0) with m in {-2, 0, 2}, the
\* overtones MaxDataN+1..MaxN of (2, 2), which data/l2.hdf does not hold, and a mode
\* whose l has no data file
Modes == {<<2, m, 0>> : m \in {-2, 0, 2}} \cup {<<2, 2, n>> : n \in (MaxDataN + 1)..MaxN}
            \cup {<<99, 99, 0>>}
\* masses requested, in solar masses
MassVals == {1, 2}
\* spins requested: both boundaries, the first value beyond each, and zero
SpinVals == {-(MAX_SPIN + 1), -MAX_SPIN, 0, MAX_SPIN, MAX_SPIN + 1}
\* modes of the key-resolution check: (l, |m|, n) with |m| <= l, for l = 2 and
\* l = 12 and the first and last overtones tabulated, the overtone MaxKeyN,
\* which is not, and a mode whose l has no data file
KeyModes == UNION {{<<l, a, n>> : a \in 0..l, n \in {0, 1, KeyDataN, MaxKeyN}} :
                      l \in KeyDataLs}
              \cup {<<3, 0, 0>>}

----------------------------------------------------------------------------
\* Splines.

\* InterpolatedUnivariateSpline(x, y) over the samples of one subgroup
Spline(l, group, name, reim) == [l |-> l, group |-> group, name |-> name, reim |-> reim]

NoSpline == [l |-> -1, group |-> <<>>, name |-> "", reim |-> ""]

\* spline(spin) at a knot: the tabulated value
Eval(spline, spin) ==
    IF spline.reim = "re" THEN OmegaRe(Owner(spline.l, spline.group), spin)
    ELSE OmegaIm(Owner(spline.l, spline.group), spin)

\* qnm.py:23  lmn = '{}{}{}'.format(l, abs(m), n)
Lmn(l, m, n) == format(l) \o format(abs(m)) \o format(n)

\* qnm.py:26  'data/l{}.hdf'.format(l), without the constant prefix and suffix
ResourceName(l) == format(l)

\* qnm.py:20-39.  streams: resource streams acquired (never closed by the code);
\* hdfOpened / hdfClosed: h5py.File objects opened, and closed by the with block.
_create_spline(name, reim, l, m, n) ==
    LET lmn == Lmn(l, m, n) IN
    IF ~HasResource(l)
    THEN [status |-> "ValueError",
          msg |-> <<"unsupported lmn ">> \o format(l) \o format(m) \o format(n),
          spline |-> NoSpline, streams |-> 0, hdfOpened |-> 0, hdfClosed |-> 0]
    ELSE IF lmn \notin Groups(l)
    THEN [status |-> "KeyError", msg |-> lmn,
          spline |-> NoSpline, streams |-> 1, hdfOpened |-> 1, hdfClosed |-> 1]
    ELSE IF reim \notin {"re", "im"}
    THEN [status |-> "ValueError", msg |-> <<"reim must be eiter 're' or 'im'">>,
          spline |-> NoSpline, streams |-> 1, hdfOpened |-> 1, hdfClosed |-> 1]
    ELSE [status |-> "ok", msg |-> <<>>,
          spline |-> Spline(l, lmn, name, reim),
          streams |-> 1, hdfOpened |-> 1, hdfClosed |-> 1]

\* mutant: the key keeps the sign of m
CacheKey_Signed(l, m, n) == <<l, m, n>>

\* qnm.py:45,48  the cache key
CacheKey(l, m, n) == <<l, abs(m), n>>

\* qnm.py:48  cache[l, abs(m), n] = spline
Store(cache, key, spline) ==
    [k \in DOMAIN cache \cup {key} |-> IF k = key THEN spline ELSE cache[k]]

\* mutant: the cache is never consulted, every lookup rebuilds the spline
_getspline_NoCache(name, reim, l, m, n, cache) ==
    LET c == _create_spline(name, reim, l, m, n) IN
    [status |-> c.status, msg |-> c.msg, spline |-> c.spline,
     cache |-> IF c.status = "ok" THEN Store(cache, <<l, abs(m), n>>, c.spline)
               ELSE cache,
     created |-> c.status = "ok",
     streams |-> c.streams, hdfOpened |-> c.hdfOpened, hdfClosed |-> c.hdfClosed]

\* mutant: the key is inserted before the spline is known to exist
_getspline_CachesFailure(name, reim, l, m, n, cache) ==
    LET key == <<l, abs(m), n>> IN
    IF key \in DOMAIN cache
    THEN [status |-> "ok", msg |-> <<>>, spline |-> cache[key], cache |-> cache,
          created |-> FALSE, streams |-> 0, hdfOpened |-> 0, hdfClosed |-> 0]
    ELSE LET c == _create_spline(name, reim, l, m, n) IN
         [status |-> c.status, msg |-> c.msg, spline |-> c.spline,
          cache |-> Store(cache, key, c.spline), created |-> c.status = "ok",
          streams |-> c.streams, hdfOpened |-> c.hdfOpened,
          hdfClosed |-> c.hdfClosed]

\* qnm.py:42-49.  created: whether _create_spline built a spline in this call.
_getspline(name, reim, l, m, n, cache) ==
    LET key == CacheKey(l, m, n) IN
    IF key \in DOMAIN cache
    THEN [status |-> "ok", msg |-> <<>>, spline |-> cache[key], cache |-> cache,
          created |-> FALSE, streams |-> 0, hdfOpened |-> 0, hdfClosed |-> 0]
    ELSE LET c == _create_spline(name, reim, l, m, n) IN
         IF c.status = "ok"
         THEN [status |-> "ok", msg |-> <<>>, spline |-> c.spline,
               cache |-> Store(cache, key, c.spline), created |-> TRUE,
               streams |-> c.streams, hdfOpened |-> c.hdfOpened,
               hdfClosed |-> c.hdfClosed]
         ELSE [status |-> c.status, msg |-> c.msg, spline |-> NoSpline,
               cache |-> cache, created |-> FALSE,
               streams |-> c.streams, hdfOpened |-> c.hdfOpened,
               hdfClosed |-> c.hdfClosed]

\* mutant: the boundary itself is rejected
_checkspin_Inclusive(spin) == abs(spin) >= MAX_SPIN

\* qnm.py:52-56  whether _checkspin raises
_checkspin(spin) == abs(spin) > MAX_SPIN

SpinError == <<"|spin| must be < ", "0.9997">>

\* mutant: the spin is used as given, also for m = 0
EffectiveSpin_Signed(spin, m) == spin

\* qnm.py:82-83 (113-114, 144-145)
EffectiveSpin(spin, m) == IF m = 0 THEN abs(spin) ELSE spin

\* qnm.py:85 (116)  sign = (-1)**int(m < 0)
Sign(m) == IF m < 0 THEN -1 ELSE 1

\* the outcome of a public call that raised; the caches are left as `re`, `im`
Raised(status, msg, re, im, created, streams, hdfOpened, hdfClosed) ==
    [status |-> status, msg |-> msg, value |-> <<0, 0>>, re |-> re, im |-> im,
     created |-> created, streams |-> streams,
     hdfOpened |-> hdfOpened, hdfClosed |-> hdfClosed]

\* mutant: the sign is applied to the imaginary part too
OmegaValue_BothNegated(sign, respline, imspline, spin) ==
    <<sign * Eval(respline, spin), sign * Eval(imspline, spin)>>

\* qnm.py:86  sign*respline(spin) + 1j*imspline(spin), as <<real, imaginary>>
OmegaValue(sign, respline, imspline, spin) ==
    <<sign * Eval(respline, spin), Eval(imspline, spin)>>

\* qnm.py:59-86
kerr_omega(spin, l, m, n, re, im) ==
    IF _checkspin(spin)
    THEN Raised("ValueError", SpinError, re, im, {}, 0, 0, 0)
    ELSE
    LET r == _getspline("omega", "re", l, m, n, re) IN
    IF r.status # "ok"
    THEN Raised(r.status, r.msg, r.cache, im, {}, r.streams, r.hdfOpened, r.hdfClosed)
    ELSE
    LET i == _getspline("omega", "im", l, m, n, im) IN
    IF i.status # "ok"
    THEN Raised(i.status, i.msg, r.cache, i.cache,
                IF r.created THEN {"re"} ELSE {},
                r.streams + i.streams, r.hdfOpened + i.hdfOpened,
                r.hdfClosed + i.hdfClosed)
    ELSE [status |-> "ok", msg |-> <<>>,
          value |-> OmegaValue(Sign(m), r.spline, i.spline, EffectiveSpin(spin, m)),
          re |-> r.cache, im |-> i.cache,
          created |-> (IF r.created THEN {"re"} ELSE {})
                        \cup (IF i.created THEN {"im"} ELSE {}),
          streams |-> r.streams + i.streams,
          hdfOpened |-> r.hdfOpened + i.hdfOpened,
          hdfClosed |-> r.hdfClosed + i.hdfClosed]

\* qnm.py:117  sign * spline(spin) / (2*numpy.pi*mass*MTSUN):
\* <<numerator, denominator in units of 2*pi*MTSUN>>
FreqValue(sign, spline, spin, mass) == <<sign * Eval(spline, spin), mass>>

\* qnm.py:89-117
kerr_freq(mass, spin, l, m, n, re, im) ==
    IF _checkspin(spin)
    THEN Raised("ValueError", SpinError, re, im, {}, 0, 0, 0)
    ELSE
    LET r == _getspline("omega", "re", l, m, n, re) IN
    IF r.status # "ok"
    THEN Raised(r.status, r.msg, r.cache, im, {}, r.streams, r.hdfOpened, r.hdfClosed)
    ELSE [status |-> "ok", msg |-> <<>>,
          value |-> FreqValue(Sign(m), r.spline, EffectiveSpin(spin, m), mass),
          re |-> r.cache, im |-> im,
          created |-> IF r.created THEN {"re"} ELSE {},
          streams |-> r.streams, hdfOpened |-> r.hdfOpened,
          hdfClosed |-> r.hdfClosed]

\* qnm.py:149  -mass*MTSUN / spline(spin):
\* <<numerator in units of MTSUN, denominator>>
TauValue(spline, spin, mass) == <<-mass, Eval(spline, spin)>>

\* mutant: the sign rule of kerr_freq is applied to the damping time as well
kerr_tau_Signed(mass, spin, l, m, n, re, im) ==
    IF _checkspin(spin)
    THEN Raised("ValueError", SpinError, re, im, {}, 0, 0, 0)
    ELSE
    LET i == _getspline("omega", "im", l, m, n, im) IN
    IF i.status # "ok"
    THEN Raised(i.status, i.msg, re, i.cache, {}, i.streams, i.hdfOpened, i.hdfClosed)
    ELSE [status |-> "ok", msg |-> <<>>,
          value |-> <<-Sign(m) * mass, Eval(i.spline, EffectiveSpin(spin, m))>>,
          re |-> re, im |-> i.cache,
          created |-> IF i.created THEN {"im"} ELSE {},
          streams |-> i.streams, hdfOpened |-> i.hdfOpened,
          hdfClosed |-> i.hdfClosed]

\* qnm.py:120-149
kerr_tau(mass, spin, l, m, n, re, im) ==
    IF _checkspin(spin)
    THEN Raised("ValueError", SpinError, re, im, {}, 0, 0, 0)
    ELSE
    LET i == _getspline("omega", "im", l, m, n, im) IN
    IF i.status # "ok"
    THEN Raised(i.status, i.msg, re, i.cache, {}, i.streams, i.hdfOpened, i.hdfClosed)
    ELSE [status |-> "ok", msg |-> <<>>,
          value |-> TauValue(i.spline, EffectiveSpin(spin, m), mass),
          re |-> re, im |-> i.cache,
          created |-> IF i.created THEN {"im"} ELSE {},
          streams |-> i.streams, hdfOpened |-> i.hdfOpened,
          hdfClosed |-> i.hdfClosed]

----------------------------------------------------------------------------
\* The single-threaded program: a sequence of public calls.

EmptyCache == [k \in {} |-> NoSpline]

NoCall == [fn |-> "none", mass |-> 0, spin |-> 0, l |-> 0, m |-> 0, n |-> 0,
           status |-> "ok", msg |-> <<>>, value |-> <<0, 0>>,
           created |-> {}, streams |-> 0]

IdleThreads == /\ tpc = [t \in 1..NThreads |-> "idle"]
               /\ targ = [t \in 1..NThreads |-> <<"re", 0, 0, 0>>]
               /\ tspline = [t \in 1..NThreads |-> NoSpline]

NoRes == [status |-> "none", resource |-> <<>>, group |-> <<>>, spline |-> NoSpline]

NoResolution == /\ modeA = <<0, 0, 0>> /\ modeB = <<0, 0, 0>>
                /\ resA = NoRes /\ resB = NoRes

Init == /\ _reomega_splines = EmptyCache
        /\ _imomega_splines = EmptyCache
        /\ last = NoCall
        /\ openStreams = 0
        /\ openHdf = 0
        /\ IdleThreads
        /\ NoResolution
        /\ dataLs = DataLs
        /\ dataMaxN = MaxDataN

Threads == 1..NThreads

\* the callers inside _create_spline that hold a reference to their stream dfile
Holders == Cardinality({t \in Threads :
                           tpc[t] \in {"stream", "hdf", "close", "closeRaise", "build"}})

\* the effect of one public call with outcome r.  A resource stream that the
\* call acquired is closed only when the runtime finalizes the unreferenced
\* file object: at once, or at some later time.
Call(fn, mass, spin, l, m, n, outcome) == \E r \in {outcome} :
    /\ _reomega_splines' = r.re
    /\ _imomega_splines' = r.im
    /\ last' = [fn |-> fn, mass |-> mass, spin |-> spin, l |-> l, m |-> m, n |-> n,
                status |-> r.status, msg |-> r.msg, value |-> r.value,
                created |-> r.created, streams |-> r.streams]
    /\ openHdf' = openHdf + r.hdfOpened - r.hdfClosed
    /\ openStreams' \in {k \in openStreams..(openStreams + r.streams) : k <= MaxOpen}
    /\ UNCHANGED <<tpc, targ, tspline, modeA, modeB, resA, resB, dataLs, dataMaxN>>

KerrOmega == \E spin \in SpinVals, k \in Modes :
    Call("kerr_omega", 0, spin, k[1], k[2], k[3],
         kerr_omega(spin, k[1], k[2], k[3], _reomega_splines, _imomega_splines))

KerrFreq == \E mass \in MassVals, spin \in SpinVals, k \in Modes :
    Call("kerr_freq", mass, spin, k[1], k[2], k[3],
         kerr_freq(mass, spin, k[1], k[2], k[3], _reomega_splines, _imomega_splines))

KerrTau == \E mass \in MassVals, spin \in SpinVals, k \in Modes :
    Call("kerr_tau", mass, spin, k[1], k[2], k[3],
         kerr_tau(mass, spin, k[1], k[2], k[3], _reomega_splines, _imomega_splines))

\* the runtime finalizes an unreferenced resource stream, which closes it
Finalize == /\ openStreams > Holders
            /\ openStreams' = openStreams - 1
            /\ UNCHANGED <<_reomega_splines, _imomega_splines, last, openHdf,
                           tpc, targ, tspline, modeA, modeB, resA, resB,
                           dataLs, dataMaxN>>

Next == KerrOmega \/ KerrFreq \/ KerrTau \/ Finalize

Spec == Init /\ [][Next]_vars

----------------------------------------------------------------------------
\* Concurrent callers of _getspline on one key of one cache.  Each caller runs
\* qnm.py:42-49 once.  A dict lookup and a dict store are each one atomic step;
\* inside _create_spline the callers interleave between opening the stream,
\* opening the HDF file, reading, leaving the with block and building the spline.

CacheOf(reim) == IF reim = "re" THEN _reomega_splines ELSE _imomega_splines

ThreadKey(t) == CacheKey(targ[t][2], targ[t][3], targ[t][4])

\* _create_spline on the arguments of caller t
ThreadCreate(t) == _create_spline("omega", targ[t][1], targ[t][2], targ[t][3], targ[t][4])

\* a caller's stream loses its last reference: the runtime closes it at once,
\* or it lingers (at most MaxOpen lingering streams) until Finalize
ReleaseStream ==
    openStreams' \in {openStreams - 1}
                        \cup (IF openStreams - (Holders - 1) <= MaxOpen
                              THEN {openStreams} ELSE {})

\* a caller enters _getspline(name, reim, l, m, n, cache)
T_Call(t) ==
    /\ tpc[t] = "idle"
    /\ \E reim \in {"re", "im"}, k \in Modes :
          /\ \A u \in Threads : tpc[u] # "idle" =>
                 targ[u][1] = reim /\ ThreadKey(u) = CacheKey(k[1], k[2], k[3])
          /\ targ' = [targ EXCEPT ![t] = <<reim, k[1], k[2], k[3]>>]
    /\ tpc' = [tpc EXCEPT ![t] = "lookup"]
    /\ UNCHANGED <<_reomega_splines, _imomega_splines, last, openStreams, openHdf,
                   tspline, modeA, modeB, resA, resB, dataLs, dataMaxN>>

\* qnm.py:44-46  spline = cache[l, abs(m), n], or KeyError
T_Lookup(t) ==
    /\ tpc[t] = "lookup"
    /\ IF ThreadKey(t) \in DOMAIN CacheOf(targ[t][1])
       THEN /\ tspline' = [tspline EXCEPT ![t] = CacheOf(targ[t][1])[ThreadKey(t)]]
            /\ tpc' = [tpc EXCEPT ![t] = "returned"]
       ELSE /\ tpc' = [tpc EXCEPT ![t] = "create"]
            /\ UNCHANGED tspline
    /\ UNCHANGED <<_reomega_splines, _imomega_splines, last, openStreams, openHdf,
                   targ, modeA, modeB, resA, resB, dataLs, dataMaxN>>

\* qnm.py:23-28  dfile = pkg_resources.resource_stream(...), or ValueError
T_OpenStream(t) ==
    /\ tpc[t] = "create"
    /\ IF HasResource(targ[t][2])
       THEN /\ openStreams' = openStreams + 1
            /\ tpc' = [tpc EXCEPT ![t] = "stream"]
       ELSE /\ tpc' = [tpc EXCEPT ![t] = "raised"]
            /\ UNCHANGED openStreams
    /\ UNCHANGED <<_reomega_splines, _imomega_splines, last, openHdf, tspline,
                   targ, modeA, modeB, resA, resB, dataLs, dataMaxN>>

\* qnm.py:29  with h5py.File(dfile, 'r') as fp
T_OpenHdf(t) ==
    /\ tpc[t] = "stream"
    /\ openHdf' = openHdf + 1
    /\ tpc' = [tpc EXCEPT ![t] = "hdf"]
    /\ UNCHANGED <<_reomega_splines, _imomega_splines, last, openStreams, tspline,
                   targ, modeA, modeB, resA, resB, dataLs, dataMaxN>>

\* qnm.py:30-37  the reads of fp[lmn] and the choice of the component, or an error
T_Read(t) ==
    /\ tpc[t] = "hdf"
    /\ tpc' = [tpc EXCEPT ![t] = IF ThreadCreate(t).status = "ok" THEN "close"
                                  ELSE "closeRaise"]
    /\ UNCHANGED <<_reomega_splines, _imomega_splines, last, openStreams, openHdf,
                   tspline, targ, modeA, modeB, resA, resB, dataLs, dataMaxN>>

\* qnm.py:29-37  the with block is left, which closes the h5py.File; an error
\* raised inside it then leaves _create_spline and _getspline
T_CloseHdf(t) ==
    /\ tpc[t] \in {"close", "closeRaise"}
    /\ openHdf' = openHdf - 1
    /\ IF tpc[t] = "close"
       THEN /\ tpc' = [tpc EXCEPT ![t] = "build"]
            /\ UNCHANGED openStreams
       ELSE /\ tpc' = [tpc EXCEPT ![t] = "raised"]
            /\ ReleaseStream
    /\ UNCHANGED <<_reomega_splines, _imomega_splines, last, tspline,
                   targ, modeA, modeB, resA, resB, dataLs, dataMaxN>>

\* qnm.py:39,47  spline = InterpolatedUnivariateSpline(x, y), returned to _getspline
T_Build(t) ==
    /\ tpc[t] = "build"
    /\ tspline' = [tspline EXCEPT ![t] = ThreadCreate(t).spline]
    /\ tpc' = [tpc EXCEPT ![t] = "store"]
    /\ ReleaseStream
    /\ UNCHANGED <<_reomega_splines, _imomega_splines, last, openHdf,
                   targ, modeA, modeB, resA, resB, dataLs, dataMaxN>>

\* qnm.py:48-49  cache[l, abs(m), n] = spline; return spline
T_Store(t) ==
    /\ tpc[t] = "store"
    /\ IF targ[t][1] = "re"
       THEN /\ _reomega_splines' = Store(_reomega_splines, ThreadKey(t), tspline[t])
            /\ UNCHANGED _imomega_splines
       ELSE /\ _imomega_splines' = Store(_imomega_splines, ThreadKey(t), tspline[t])
            /\ UNCHANGED _reomega_splines
    /\ tpc' = [tpc EXCEPT ![t] = "returned"]
    /\ UNCHANGED <<last, openStreams, openHdf, targ, tspline, modeA, modeB, resA, resB,
                   dataLs, dataMaxN>>

NextConc == \/ \E t \in Threads : T_Call(t)
            \/ \E t \in Threads : T_Lookup(t)
            \/ \E t \in Threads : T_OpenStream(t)
            \/ \E t \in Threads : T_OpenHdf(t)
            \/ \E t \in Threads : T_Read(t)
            \/ \E t \in Threads : T_CloseHdf(t)
            \/ \E t \in Threads : T_Build(t)
            \/ \E t \in Threads : T_Store(t)
            \/ Finalize

SpecConc == Init /\ [][NextConc]_vars

----------------------------------------------------------------------------
\* Key resolution: _create_spline on two modes, over data files that hold
\* modes with more than one digit in |m| and n.

InitKey == /\ _reomega_splines = EmptyCache
           /\ _imomega_splines = EmptyCache
           /\ last = NoCall
           /\ openStreams = 0
           /\ openHdf = 0
           /\ IdleThreads
           /\ modeA \in KeyModes
           /\ modeB \in KeyModes
           /\ resA = NoRes
           /\ resB = NoRes
           /\ dataLs = KeyDataLs
           /\ dataMaxN = KeyDataN

\* what one run of _create_spline did: its status, the resource it opened, the
\* subgroup it read and the spline it built
Resolution(l, c) ==
    [status |-> c.status,
     resource |-> IF c.streams > 0 THEN ResourceName(l) ELSE <<>>,
     group |-> c.spline.group,
     spline |-> c.spline]

\* the effect of one run of _create_spline on the handles
CreateEffect(c) ==
    /\ openHdf' = openHdf + c.hdfOpened - c.hdfClosed
    /\ openStreams' \in {k \in openStreams..(openStreams + c.streams) : k <= MaxOpen}

\* qnm.py:20-39  _create_spline('omega', 're', l, m, n) for the first mode
ResolveA ==
    /\ resA = NoRes
    /\ \E c \in {_create_spline("omega", "re", modeA[1], modeA[2], modeA[3])} :
          resA' = Resolution(modeA[1], c) /\ CreateEffect(c)
    /\ UNCHANGED <<_reomega_splines, _imomega_splines, last, tpc, targ, tspline,
                   modeA, modeB, resB, dataLs, dataMaxN>>

\* qnm.py:20-39  _create_spline('omega', 're', l, m, n) for the second mode
ResolveB ==
    /\ resB = NoRes
    /\ \E c \in {_create_spline("omega", "re", modeB[1], modeB[2], modeB[3])} :
          resB' = Resolution(modeB[1], c) /\ CreateEffect(c)
    /\ UNCHANGED <<_reomega_splines, _imomega_splines, last, tpc, targ, tspline,
                   modeA, modeB, resA, dataLs, dataMaxN>>

NextKey == ResolveA \/ ResolveB \/ Finalize

SpecKey == InitKey /\ [][NextKey]_vars

----------------------------------------------------------------------------
\* Properties.

\* the last step was a public call (Finalize is the only step that closes a stream)
CallStep == openStreams' >= openStreams /\ last'.fn # "none"

\* the mode of the last call, as the cache key it normalizes to
LastKey == <<last.l, abs(last.m), last.n>>

\* the last call was a call on a mode that has data
LastHasData == last.fn # "none" /\ Tabulated(last.l, abs(last.m), last.n)

\* the caches a public function looks up
Uses(fn) == IF fn = "kerr_omega" THEN {"re", "im"}
            ELSE IF fn = "kerr_freq" THEN {"re"}
            ELSE IF fn = "kerr_tau" THEN {"im"} ELSE {}

\* the outcome of kerr_omega on the arguments of the last call, m replaced by mm
\* and spin by sp, in the current state
OmegaAt(sp, mm) ==
    kerr_omega(sp, last.l, mm, last.n, _reomega_splines, _imomega_splines)

\* C1 (as claimed): for a mode with data, m != 0 and an in-range spin,
\* kerr_omega negates both the real and the imaginary part when m changes sign.
C1_NegatesBothParts ==
    (last.fn = "kerr_omega" /\ last.status = "ok" /\ last.m # 0) =>
        /\ last.value[1] = -(OmegaAt(last.spin, -last.m).value[1])
        /\ last.value[2] = -(OmegaAt(last.spin, -last.m).value[2])

\* C1 (amended): for a mode with data, m != 0 and an in-range spin, changing the
\* sign of m negates the real part only and leaves the imaginary part as it is:
\* the result is sign*Re_interp(s) + i*Im_interp(s).
C1_NegatesRealPartOnly ==
    (last.fn = "kerr_omega" /\ last.status = "ok" /\ last.m # 0) =>
        /\ OmegaAt(last.spin, -last.m).status = "ok"
        /\ last.value[1] = -(OmegaAt(last.spin, -last.m).value[1])
        /\ last.value[2] = OmegaAt(last.spin, -last.m).value[2]
        /\ last.value = <<(IF last.m < 0 THEN -1 ELSE 1) * OmegaRe(LastKey, last.spin),
                          OmegaIm(LastKey, last.spin)>>

C1_Witness ==
    /\ last.fn = "kerr_omega" /\ last.status = "ok" /\ last.m < 0
    /\ last.value[1] < 0 /\ last.value[2] < 0

\* C2: a call with an in-range spin on a mode without data fails with ValueError
\* naming the (l, m, n) triple, whether the resource or only the subgroup is missing.
C2_UnsupportedModeIsValueError ==
    (last.fn # "none" /\ abs(last.spin) <= MAX_SPIN /\ ~LastHasData) =>
        /\ last.status = "ValueError"
        /\ last.msg = <<"unsupported lmn ">> \o format(last.l) \o format(last.m)
                         \o format(last.n)

\* C3: per cache, an entry is never evicted or replaced; a call builds a spline
\* only for a key that is absent, and then stores it; a call whose keys are all
\* cached (under either sign of m) builds nothing and reads no resource; and a
\* successful call repeated with the same arguments returns the same value.
C3_BuiltAtMostOnce ==
    [][ /\ \A k \in DOMAIN _reomega_splines :
              k \in DOMAIN _reomega_splines' /\ _reomega_splines'[k] = _reomega_splines[k]
        /\ \A k \in DOMAIN _imomega_splines :
              k \in DOMAIN _imomega_splines' /\ _imomega_splines'[k] = _imomega_splines[k]
        /\ CallStep =>
              /\ ("re" \in last'.created) <=>
                     (LastKey' \notin DOMAIN _reomega_splines
                        /\ LastKey' \in DOMAIN _reomega_splines')
              /\ ("im" \in last'.created) <=>
                     (LastKey' \notin DOMAIN _imomega_splines
                        /\ LastKey' \in DOMAIN _imomega_splines')
              /\ ( /\ abs(last'.spin) <= MAX_SPIN
                   /\ ("re" \in Uses(last'.fn) => LastKey' \in DOMAIN _reomega_splines)
                   /\ ("im" \in Uses(last'.fn) => LastKey' \in DOMAIN _imomega_splines) )
                 => (last'.created = {} /\ last'.streams = 0 /\ last'.status = "ok")
              /\ ( /\ last.status = "ok" /\ last'.fn = last.fn
                   /\ last'.mass = last.mass /\ last'.spin = last.spin
                   /\ last'.l = last.l /\ last'.m = last.m /\ last'.n = last.n )
                 => (last'.status = "ok" /\ last'.value = last.value
                       /\ last'.created = {})
      ]_vars

\* a call with m < 0 reused both splines that a call had built earlier
C3_Witness ==
    /\ last.fn = "kerr_omega" /\ last.status = "ok" /\ last.m < 0
    /\ last.created = {} /\ last.streams = 0

\* C4: on a mode with data a call fails with the spin error exactly when
\* |spin| > MAX_SPIN, and succeeds otherwise (at +MAX_SPIN and -MAX_SPIN too).
C4_SpinErrorIffOutOfRange ==
    LastHasData =>
        /\ (last.status = "ValueError" /\ last.msg = SpinError)
              <=> (last.spin > MAX_SPIN \/ last.spin < -MAX_SPIN)
        /\ (last.spin <= MAX_SPIN /\ last.spin >= -MAX_SPIN) => last.status = "ok"

C4_Witness ==
    LastHasData /\ last.spin = -MAX_SPIN /\ last.status = "ok"

\* C5: for m = 0, kerr_omega at spin and at -spin agree, both being evaluated
\* at |spin|; for m != 0 the splines are evaluated at the signed spin.
C5_ZeroMIgnoresSpinSign ==
    (last.fn = "kerr_omega" /\ last.status = "ok") =>
        /\ last.m = 0 =>
              /\ OmegaAt(-last.spin, 0).status = "ok"
              /\ last.value = OmegaAt(-last.spin, 0).value
              /\ last.value = <<OmegaRe(LastKey, abs(last.spin)),
                                OmegaIm(LastKey, abs(last.spin))>>
        /\ last.m # 0 => last.value[2] = OmegaIm(LastKey, last.spin)

C5_Witness ==
    last.fn = "kerr_omega" /\ last.status = "ok" /\ last.m = 0 /\ last.spin < 0

\* the state part of C6
C6_TauValue ==
    (last.fn = "kerr_tau" /\ last.status = "ok") =>
        /\ last.value = kerr_tau(last.mass, last.spin, last.l, -last.m, last.n,
                                 _reomega_splines, _imomega_splines).value
        /\ last.value = <<-last.mass,
                          OmegaIm(LastKey, IF last.m = 0 THEN abs(last.spin)
                                           ELSE last.spin)>>
        /\ last.created \subseteq {"im"}

\* C6: kerr_tau returns -mass*MTSUN / Im_interp(effective spin) for m and for -m
\* alike, with no sign negation, and it touches only the imaginary-part cache.
C6_TauHasNoSignRule ==
    [][ (CallStep /\ last'.fn = "kerr_tau") =>
            (C6_TauValue' /\ _reomega_splines' = _reomega_splines) ]_vars

C6_Witness ==
    /\ last.fn = "kerr_tau" /\ last.status = "ok" /\ last.m < 0
    /\ last.value[1] < 0 /\ last.value[2] < 0

\* C7: between calls no handle is open: neither an h5py.File nor a resource stream.
C7_NoOpenHandles == openStreams = 0 /\ openHdf = 0

\* every entry of a cache is the complete spline of its own key
EntriesComplete(reim) ==
    \A k \in DOMAIN CacheOf(reim) :
        /\ CacheOf(reim)[k].l = k[1]
        /\ CacheOf(reim)[k].group \in Groups(k[1])
        /\ Owner(k[1], CacheOf(reim)[k].group) = k
        /\ CacheOf(reim)[k].name = "omega"
        /\ CacheOf(reim)[k].reim = reim

\* the state part of C8
C8_State ==
    /\ EntriesComplete("re") /\ EntriesComplete("im")
    /\ \A t \in Threads : tpc[t] = "returned" =>
          /\ ThreadKey(t) \in DOMAIN CacheOf(targ[t][1])
          /\ tspline[t] = CacheOf(targ[t][1])[ThreadKey(t)]
          /\ tspline[t].l = targ[t][2]
          /\ Owner(targ[t][2], tspline[t].group) = ThreadKey(t)
          /\ tspline[t].reim = targ[t][1]
    /\ (\E t \in Threads : tpc[t] = "returned") =>
          \E t \in Threads :
              /\ DOMAIN CacheOf(targ[t][1]) = {ThreadKey(t)}
              /\ DOMAIN CacheOf(IF targ[t][1] = "re" THEN "im" ELSE "re") = {}

\* C8: when callers interleave the steps of _getspline on one key, every cache
\* entry is always the complete spline of its key, every caller returns the
\* spline of its key, the cache holds exactly one entry for the key, and a store
\* over an existing entry writes an equal one.
C8_InterleavedLookups ==
    [][ /\ C8_State'
        /\ \A k \in DOMAIN _reomega_splines :
              k \in DOMAIN _reomega_splines' /\ _reomega_splines'[k] = _reomega_splines[k]
        /\ \A k \in DOMAIN _imomega_splines :
              k \in DOMAIN _imomega_splines' /\ _imomega_splines'[k] = _imomega_splines[k]
      ]_vars

\* two callers built the spline of the same key, and one store overwrote the other
C8_Witness ==
    \E t, u \in Threads :
        /\ t # u /\ tpc[t] = "returned" /\ tpc[u] = "store"
        /\ targ[t][3] = -targ[u][3] /\ targ[t][3] # 0
        /\ ThreadKey(t) \in DOMAIN CacheOf(targ[t][1])
        /\ tspline[u] = CacheOf(targ[u][1])[ThreadKey(u)]

\* every cached key is (l, a, n) with a >= 0 and names a mode that has data
C9_KeysValid ==
    \A k \in DOMAIN _reomega_splines \cup DOMAIN _imomega_splines :
        k[2] >= 0 /\ Tabulated(k[1], k[2], k[3])

\* C9: a call that raises leaves both caches as they were; an out-of-range spin
\* is reported before any lookup or read, also for a mode without data; and
\* every cached key is normalized and names a mode that has data.
C9_FailureChangesNothing ==
    [][ /\ C9_KeysValid'
        /\ (CallStep /\ last'.status # "ok") =>
              /\ _reomega_splines' = _reomega_splines
              /\ _imomega_splines' = _imomega_splines
              /\ last'.created = {}
        /\ (CallStep /\ (last'.spin > MAX_SPIN \/ last'.spin < -MAX_SPIN)) =>
              /\ last'.status = "ValueError" /\ last'.msg = SpinError
              /\ last'.streams = 0
              /\ openStreams' = openStreams /\ openHdf' = openHdf
      ]_vars

\* an out-of-range spin on a mode without data, with splines already cached
C9_Witness ==
    /\ last.fn # "none" /\ last.status = "ValueError" /\ last.msg = SpinError
    /\ ~LastHasData /\ last.spin > MAX_SPIN
    /\ DOMAIN _reomega_splines # {} /\ DOMAIN _imomega_splines # {}

\* C10: two different modes (l, |m|, n) never resolve to the same subgroup of
\* the same resource, so each spline is built from the samples of its own mode.
C10_KeyIdentifiesMode ==
    (resA.status = "ok" /\ resB.status = "ok" /\ modeA # modeB) =>
        /\ <<resA.resource, resA.group>> # <<resB.resource, resB.group>>
        /\ Owner(modeA[1], resA.group) = modeA
        /\ Owner(modeB[1], resB.group) = modeB

====
